---- MODULE Spec2Model ----
(***************************************************************************)
(* libuev: a single-threaded epoll reactor with I/O and timerfd watchers.  *)
(* The model follows src/libuev.c.  One Context exists; its watchers live  *)
(* at heap addresses, the kernel side (descriptor table, epoll interest    *)
(* list, timerfd state) is modelled next to it.                            *)
(***************************************************************************)
EXTENDS Integers, Sequences, FiniteSets, TLC

\* ------------------------------------------------------------------ bounds
MaxWatchers == 2      \* heap addresses a watcher can be allocated at
MaxFd       == 5      \* highest descriptor number of the process
MaxCbOps    == 1      \* API calls one callback invocation makes at most
MaxTicks    == 1      \* cap of a timerfd's expiration counter

\* --------------------------------------------------------------- constants
UEV_MAX_EVENTS == 10

NULL  == 0
Addr  == 1..MaxWatchers
FdSet == 3..MaxFd                 \* 0..2 are the standard streams
Msecs == {-1, 0, 1500}            \* timeout / period arguments (int, msec)
Types == {"UEV_FILE_TYPE", "UEV_TIMER_TYPE"}
Dirs  == {"UEV_DIR_INBOUND", "UEV_DIR_OUTBOUND"}

VARIABLES
    heap,      \* [Addr -> uev_io_t]: the fields the library reads back; the
               \* bytes stay as they are after free()
    live,      \* addresses calloc() handed out and free() has not taken back
    list,      \* ctx->watchers, head first
    regs,      \* epoll interest list of ctx->efd: fd -> [ptr, events] or NULL
    fds,       \* descriptor table: fd -> "closed" | "app" | "timer" | "epoll"
    tfd,       \* timerfd state: fd -> [value, interval, ticks]
    running,   \* ctx->running
    ub,        \* the undefined behaviour the last step ran into, if any
    freed,     \* addresses free()d since the last epoll_wait() returned
    pc,        \* where the application / uev_run() stands
    events,    \* ctx->events[0 .. nfds-1], the data.ptr of each ready event
    i,         \* uev_run: index into events (1-based)
    result,    \* uev_run: local result
    cbOps,     \* API calls made by the callback in progress
    ret,       \* what the uev_run() call that just returned has returned
    run        \* bookkeeping of the current uev_run() call

vars == <<heap, live, list, regs, fds, tfd, running, ub, freed,
          pc, events, i, result, cbOps, ret, run>>

\* ---------------------------------------------------------------- helpers
Min(a, b) == IF a < b THEN a ELSE b

\* C integer division and remainder truncate toward zero
cdiv(a, b) == IF a >= 0 THEN a \div b ELSE -((-a) \div b)
crem(a, b) == a - b * cdiv(a, b)

\* src/libuev.c:34
msec2tspec(msec) ==
    [tv_sec  |-> cdiv(msec, 1000),
     tv_nsec |-> crem(msec, 1000) * 1000000]

ZeroSpec == [tv_sec |-> 0, tv_nsec |-> 0]

\* the kernel's timespec64_valid()
timespec_valid(ts) ==
    ts.tv_sec >= 0 /\ ts.tv_nsec >= 0 /\ ts.tv_nsec < 1000000000

\* a null function pointer / an fd that is on no interest list
NoHandler == "null"
NoReg == [ptr |-> NULL, events |-> "none"]

NoWatcher ==
    [fd |-> -1, type |-> "UEV_FILE_TYPE",
     handler |-> NoHandler, timeout |-> 0, period |-> 0]

NoTimer == [value |-> ZeroSpec, interval |-> ZeroSpec, ticks |-> 0]

\* The program state the library functions work on.
State ==
    [heap |-> heap, live |-> live, list |-> list, regs |-> regs, fds |-> fds,
     tfd |-> tfd, running |-> running, ub |-> "none", freed |-> freed]

Commit(S) ==
    /\ heap' = S.heap
    /\ live' = S.live
    /\ list' = S.list
    /\ regs' = S.regs
    /\ fds' = S.fds
    /\ tfd' = S.tfd
    /\ running' = S.running
    /\ ub' = S.ub
    /\ freed' = S.freed

\* the first undefined behaviour of a step is the one recorded
Undefined(S, kind) == IF S.ub = "none" THEN [S EXCEPT !.ub = kind] ELSE S

Members(S) == {S.list[k] : k \in 1..Len(S.list)}

RemoveFromSeq(s, x) == SelectSeq(s, LAMBDA y : y # x)

\* ------------------------------------------------------------ kernel side
LowestFree(S) ==
    IF \E fd \in FdSet : S.fds[fd] = "closed"
    THEN CHOOSE fd \in FdSet :
            /\ S.fds[fd] = "closed"
            /\ \A g \in FdSet : S.fds[g] = "closed" => fd <= g
    ELSE -1

\* close(2): the descriptor goes away and, being the only reference to its
\* open file, the kernel drops the file from every epoll interest list.
sys_close(S, fd) ==
    IF fd \in FdSet /\ S.fds[fd] # "closed"
    THEN [S EXCEPT !.fds[fd] = "closed",
                   !.regs[fd] = NoReg,
                   !.tfd[fd] = NoTimer]
    ELSE S

\* epoll_ctl(efd, EPOLL_CTL_ADD, fd, &ev); ok = the kernel has the memory
epoll_ctl_add(S, fd, ev, ok) ==
    IF /\ ok
       /\ fd \in FdSet
       /\ S.fds[fd] \in {"app", "timer"}
       /\ S.regs[fd] = NoReg
    THEN [s |-> [S EXCEPT !.regs[fd] = ev], ret |-> 0]
    ELSE [s |-> S, ret |-> -1]

\* epoll_ctl(efd, EPOLL_CTL_DEL, fd, NULL)
epoll_ctl_del(S, fd) ==
    IF fd \in FdSet /\ S.fds[fd] # "closed" /\ S.regs[fd] # NoReg
    THEN [s |-> [S EXCEPT !.regs[fd] = NoReg], ret |-> 0]
    ELSE [s |-> S, ret |-> -1]

\* timerfd_settime(fd, 0, &time, NULL): a zero it_value disarms; the
\* expiration counter restarts from zero on every call that succeeds.
timerfd_settime(S, fd, time) ==
    IF /\ fd \in FdSet
       /\ S.fds[fd] = "timer"
       /\ timespec_valid(time.it_value)
       /\ timespec_valid(time.it_interval)
    THEN [s |-> [S EXCEPT !.tfd[fd] = [value    |-> time.it_value,
                                       interval |-> time.it_interval,
                                       ticks    |-> 0]],
          ret |-> 0]
    ELSE [s |-> S, ret |-> -1]

\* read(fd, &exp, sizeof(exp)) on a TFD_NONBLOCK timerfd: 8 bytes when the
\* counter is nonzero (and the counter is reset), else -1/EAGAIN.
timerfd_read(S, fd) ==
    IF fd \in FdSet /\ S.fds[fd] = "timer" /\ S.tfd[fd].ticks > 0
    THEN [s |-> [S EXCEPT !.tfd[fd].ticks = 0], ret |-> 8]
    ELSE [s |-> S, ret |-> -1]

Armed(S, fd) == S.fds[fd] = "timer" /\ S.tfd[fd].value # ZeroSpec

\* a new_watcher that links the watcher into the set before it registers
\* the descriptor and does not unlink it when epoll_ctl() fails
new_watcher_early_insert(S, ctx, type, fd, dir, handler, mem, ok) ==
    IF ~ctx \/ handler = NoHandler THEN [s |-> S, ret |-> NULL]
    ELSE IF mem = NULL THEN [s |-> S, ret |-> NULL]
    ELSE
      LET w  == [fd |-> fd, type |-> type, handler |-> handler,
                 timeout |-> 0, period |-> 0]
          S1 == [S EXCEPT !.heap[mem] = w, !.live = @ \cup {mem},
                          !.list = <<mem>> \o @]
          ev == [ptr |-> mem,
                 events |-> IF dir = "UEV_DIR_OUTBOUND" THEN "EPOLLOUT"
                                                        ELSE "EPOLLIN"]
          r  == epoll_ctl_add(S1, fd, ev, ok)
      IN IF r.ret < 0
         THEN [s |-> [S1 EXCEPT !.live = @ \ {mem}], ret |-> NULL]
         ELSE [s |-> r.s, ret |-> mem]

\* --------------------------------------------------------------- libuev.c
\* calloc() result `mem`: NULL or an address not in use
new_watcher(S, ctx, type, fd, dir, handler, mem, ok) ==
    IF ~ctx \/ handler = NoHandler THEN [s |-> S, ret |-> NULL]
    ELSE IF mem = NULL THEN [s |-> S, ret |-> NULL]
    ELSE
      LET w  == [fd |-> fd, type |-> type, handler |-> handler,
                 timeout |-> 0, period |-> 0]
          S1 == [S EXCEPT !.heap[mem] = w, !.live = @ \cup {mem}]
          ev == [ptr |-> mem,
                 events |-> IF dir = "UEV_DIR_OUTBOUND" THEN "EPOLLOUT"
                                                        ELSE "EPOLLIN"]
          r  == epoll_ctl_add(S1, fd, ev, ok)
      IN IF r.ret < 0
         THEN [s |-> [S1 EXCEPT !.live = @ \ {mem}], ret |-> NULL]
         ELSE [s |-> [r.s EXCEPT !.list = <<mem>> \o @], ret |-> mem]

delete_watcher(S, ctx, w) ==
    IF ~ctx \/ w = NULL THEN [s |-> S, ret |-> -1]
    ELSE
      LET S0 == IF w \in S.live THEN S ELSE Undefined(S, "double_free")
          S1 == epoll_ctl_del(S0, S0.heap[w].fd).s
          S2 == [S1 EXCEPT !.list = RemoveFromSeq(@, w),
                           !.live = @ \ {w},
                           !.freed = @ \cup {w}]
      IN [s |-> S2, ret |-> 0]

uev_io_create(S, ctx, handler, fd, dir, mem, ok) ==
    new_watcher(S, ctx, "UEV_FILE_TYPE", fd, dir, handler, mem, ok)

uev_io_delete(S, ctx, w) == delete_watcher(S, ctx, w)

\* a uev_timer_set without the test of ctx->running
uev_timer_set_at_once(S, ctx, w, timeout, period) ==
    IF ~ctx \/ w = NULL THEN [s |-> S, ret |-> -1]
    ELSE
      LET S0 == IF w \in S.live THEN S ELSE Undefined(S, "write_after_free")
          S1 == [S0 EXCEPT !.heap[w].timeout = timeout,
                           !.heap[w].period = period]
          time == [it_value |-> msec2tspec(timeout),
                   it_interval |-> msec2tspec(period)]
      IN timerfd_settime(S1, S1.heap[w].fd, time)

uev_timer_set(S, ctx, w, timeout, period) ==
    IF ~ctx \/ w = NULL THEN [s |-> S, ret |-> -1]
    ELSE
      LET S0 == IF w \in S.live THEN S ELSE Undefined(S, "write_after_free")
          S1 == [S0 EXCEPT !.heap[w].timeout = timeout,
                           !.heap[w].period = period]
          time == [it_value |-> msec2tspec(timeout),
                   it_interval |-> msec2tspec(period)]
      IN IF ~S1.running THEN [s |-> S1, ret |-> 0]
         ELSE timerfd_settime(S1, S1.heap[w].fd, time)

uev_timer_delete(S, ctx, w) ==
    IF ~ctx \/ w = NULL THEN [s |-> S, ret |-> -1]
    ELSE delete_watcher(uev_timer_set(S, ctx, w, 0, 0).s, ctx, w)

\* a uev_timer_create that returns NULL when arming fails without taking
\* the watcher back out or closing the timerfd
uev_timer_create_no_unwind(S, ctx, handler, timeout, period, tfdnew, mem, ok) ==
    IF tfdnew < 0 THEN [s |-> S, ret |-> NULL, closed |-> 0]
    ELSE
      LET S0 == [S EXCEPT !.fds[tfdnew] = "timer", !.tfd[tfdnew] = NoTimer]
          n  == new_watcher(S0, ctx, "UEV_TIMER_TYPE", tfdnew,
                            "UEV_DIR_INBOUND", handler, mem, ok)
      IN IF n.ret = NULL
         THEN [s |-> sys_close(n.s, tfdnew), ret |-> NULL, closed |-> 1]
         ELSE LET t == uev_timer_set(n.s, ctx, n.ret, timeout, period)
              IN IF t.ret # 0
                 THEN [s |-> t.s, ret |-> NULL, closed |-> 0]
                 ELSE [s |-> t.s, ret |-> n.ret, closed |-> 0]

\* tfdnew: timerfd_create() result, a fresh descriptor or -1
uev_timer_create(S, ctx, handler, timeout, period, tfdnew, mem, ok) ==
    IF tfdnew < 0 THEN [s |-> S, ret |-> NULL, closed |-> 0]
    ELSE
      LET S0 == [S EXCEPT !.fds[tfdnew] = "timer", !.tfd[tfdnew] = NoTimer]
          n  == new_watcher(S0, ctx, "UEV_TIMER_TYPE", tfdnew,
                            "UEV_DIR_INBOUND", handler, mem, ok)
      IN IF n.ret = NULL
         THEN [s |-> sys_close(n.s, tfdnew), ret |-> NULL, closed |-> 1]
         ELSE LET t == uev_timer_set(n.s, ctx, n.ret, timeout, period)
              IN IF t.ret # 0
                 THEN [s |-> sys_close(delete_watcher(t.s, ctx, n.ret).s,
                                       tfdnew),
                       ret |-> NULL, closed |-> 1]
                 ELSE [s |-> t.s, ret |-> n.ret, closed |-> 0]

\* LIST_FOREACH of uev_run: arm every timer of the list, results ignored
RECURSIVE start_timers(_, _)
start_timers(S, l) ==
    IF l = <<>> THEN S
    ELSE LET w == Head(l)
         IN start_timers(
              IF S.heap[w].type = "UEV_TIMER_TYPE"
              THEN uev_timer_set(S, TRUE, w, S.heap[w].timeout,
                                 S.heap[w].period).s
              ELSE S,
              Tail(l))

RECURSIVE delete_all(_)
delete_all(S) ==
    IF S.list = <<>> THEN S
    ELSE LET w == Head(S.list)
         IN delete_all(IF S.heap[w].type = "UEV_TIMER_TYPE"
                       THEN uev_timer_delete(S, TRUE, w).s
                       ELSE uev_io_delete(S, TRUE, w).s)

EpollFd(S) == CHOOSE fd \in FdSet : S.fds[fd] = "epoll"

uev_ctx_delete(S) == sys_close(delete_all(S), EpollFd(S))

uev_exit(S) == [S EXCEPT !.running = FALSE]

\* uev_run, lines 244-251: set the flag, start all dormant timers
uev_run_start(S) == start_timers([S EXCEPT !.running = TRUE], S.list)

\* a housekeeping step whose one-shot check goes by the interval the
\* timerfd was given before it fired instead of the stored period
uev_run_after_handler_old_period(S, w, res) ==
    IF S.heap[w].type = "UEV_TIMER_TYPE"
    THEN LET fd == S.heap[w].fd
             r  == timerfd_read(S, fd)
             S1 == IF r.ret # 8 THEN [r.s EXCEPT !.running = FALSE] ELSE r.s
             r1 == IF r.ret # 8 THEN -1 ELSE res
         IN IF fd \in FdSet /\ S.tfd[fd].interval = ZeroSpec
            THEN [s |-> uev_timer_delete(S1, TRUE, w).s, result |-> r1,
                  rfail |-> r.ret # 8, deleted |-> TRUE]
            ELSE [s |-> S1, result |-> r1, rfail |-> r.ret # 8,
                  deleted |-> FALSE]
    ELSE [s |-> S, result |-> res, rfail |-> FALSE, deleted |-> FALSE]

\* a housekeeping step that deletes every timer after its callback
uev_run_after_handler_deletes(S, w, res) ==
    IF S.heap[w].type = "UEV_TIMER_TYPE"
    THEN LET r  == timerfd_read(S, S.heap[w].fd)
             S1 == IF r.ret # 8 THEN [r.s EXCEPT !.running = FALSE] ELSE r.s
             r1 == IF r.ret # 8 THEN -1 ELSE res
         IN [s |-> uev_timer_delete(S1, TRUE, w).s, result |-> r1,
             rfail |-> r.ret # 8, deleted |-> TRUE]
    ELSE [s |-> S, result |-> res, rfail |-> FALSE, deleted |-> FALSE]

\* a housekeeping step that clears the flag on a failed read but leaves the
\* result alone
uev_run_after_handler_keeps_result(S, w, res) ==
    IF S.heap[w].type = "UEV_TIMER_TYPE"
    THEN LET r  == timerfd_read(S, S.heap[w].fd)
             S1 == IF r.ret # 8 THEN [r.s EXCEPT !.running = FALSE] ELSE r.s
         IN IF S1.heap[w].period = 0
            THEN [s |-> uev_timer_delete(S1, TRUE, w).s, result |-> res,
                  rfail |-> r.ret # 8, deleted |-> TRUE]
            ELSE [s |-> S1, result |-> res, rfail |-> r.ret # 8,
                  deleted |-> FALSE]
    ELSE [s |-> S, result |-> res, rfail |-> FALSE, deleted |-> FALSE]

\* a housekeeping step that records the failed read in the result but
\* leaves the running flag alone
uev_run_after_handler_keeps_running(S, w, res) ==
    IF S.heap[w].type = "UEV_TIMER_TYPE"
    THEN LET r  == timerfd_read(S, S.heap[w].fd)
             r1 == IF r.ret # 8 THEN -1 ELSE res
         IN IF r.s.heap[w].period = 0
            THEN [s |-> uev_timer_delete(r.s, TRUE, w).s, result |-> r1,
                  rfail |-> r.ret # 8, deleted |-> TRUE]
            ELSE [s |-> r.s, result |-> r1, rfail |-> r.ret # 8,
                  deleted |-> FALSE]
    ELSE [s |-> S, result |-> res, rfail |-> FALSE, deleted |-> FALSE]

\* uev_run, lines 271-281: what follows the callback of event w
uev_run_after_handler(S, w, res) ==
    IF S.heap[w].type = "UEV_TIMER_TYPE"
    THEN LET r  == timerfd_read(S, S.heap[w].fd)
             S1 == IF r.ret # 8 THEN [r.s EXCEPT !.running = FALSE] ELSE r.s
             r1 == IF r.ret # 8 THEN -1 ELSE res
         IN IF S1.heap[w].period = 0
            THEN [s |-> uev_timer_delete(S1, TRUE, w).s, result |-> r1,
                  rfail |-> r.ret # 8, deleted |-> TRUE]
            ELSE [s |-> S1, result |-> r1, rfail |-> r.ret # 8,
                  deleted |-> FALSE]
    ELSE [s |-> S, result |-> res, rfail |-> FALSE, deleted |-> FALSE]

\* a for loop that is left as soon as the running flag is clear
uev_run_next_break(S, n, nfds) ==
    IF n < nfds /\ S.running THEN "dispatch" ELSE "loop"

\* uev_run, line 265: the for loop goes on while i < nfds, whatever the
\* running flag says (n is the 1-based index of the event just handled)
uev_run_next(S, n, nfds) == IF n < nfds THEN "dispatch" ELSE "loop"

\* a loop that also ends, flag untouched, when no watcher is left
uev_run_continue_while_watchers(S) == S.running /\ S.list # <<>>

\* uev_run, line 253: while (ctx->running)
uev_run_continue(S) == S.running

\* a wait loop without the errno test: every failed wait ends the loop
uev_run_wait_failed_no_errno(S, res, errno) ==
    [s |-> [S EXCEPT !.running = FALSE], result |-> -1]

\* uev_run, lines 256-263: epoll_wait() failed; EINTR is tried again
uev_run_wait_failed(S, res, errno) ==
    IF errno = "EINTR" THEN [s |-> S, result |-> res]
    ELSE [s |-> [S EXCEPT !.running = FALSE], result |-> -1]

\* ------------------------------------------------------------------- Init
\* kind: how uev_run was called; wait: outcome of the last epoll_wait();
\* invoked: callbacks invoked in the batch; wfail, rfail: a wait, a timer
\* read has failed;
\* exitAt: index of the event whose callback first called uev_exit();
\* rearm: the callback in progress has rearmed its own timer
NoRun == [kind |-> "none", wfail |-> FALSE, rfail |-> FALSE, exitAt |-> 0,
          invoked |-> 0, wait |-> "none", rearm |-> FALSE]
NoRet == <<>>

\* the state uev_ctx_create() leaves: efd is the lowest free descriptor
Init ==
    /\ heap = [a \in Addr |-> NoWatcher]
    /\ live = {}
    /\ list = <<>>
    /\ regs = [fd \in FdSet |-> NoReg]
    /\ fds = [fd \in FdSet |-> IF fd = 3 THEN "epoll" ELSE "closed"]
    /\ tfd = [fd \in FdSet |-> NoTimer]
    /\ running = FALSE
    /\ ub = "none"
    /\ freed = {}
    /\ pc = "idle"
    /\ events = <<>>
    /\ i = 0
    /\ result = 0
    /\ cbOps = 0
    /\ ret = NoRet
    /\ run = NoRun

\* ---------------------------------------------------------------- actions
\* Freed memory can be told from fresh memory only through a dangling
\* pointer, and the only ones the library keeps are in ctx->events while a
\* batch is dispatched: outside a batch the bytes of free blocks are dropped.
Settle(S, to) ==
    IF to \in {"idle", "loop", "deleted"}
    THEN [S EXCEPT !.heap = [a \in Addr |-> IF a \in S.live THEN S.heap[a]
                                            ELSE NoWatcher],
                   !.freed = {}]
    ELSE S

\* the application may call the API between runs and from inside a callback
CanCall == pc = "idle" \/ (pc = "callback" /\ cbOps < MaxCbOps)

\* an API call made by the application; r is the bookkeeping it leaves
Called(S, r) ==
    /\ Commit(Settle(S, pc))
    /\ ret' = NoRet
    /\ run' = IF pc = "idle" THEN NoRun ELSE r
    /\ cbOps' = IF pc = "callback" THEN cbOps + 1 ELSE cbOps
    /\ UNCHANGED <<pc, events, i, result>>

FreeMem(S) == {NULL} \cup (Addr \ S.live)
Watchers(type) == {a \in live : heap[a].type = type}

\* arguments of the calls: every valid combination, and each invalid one
CtxArgs == {<<TRUE, "cb">>, <<FALSE, "cb">>, <<TRUE, NoHandler>>}
TimerArgs == {<<0, 0>>, <<1500, 0>>, <<0, 1500>>, <<1500, 1500>>, <<-1, 0>>}

\* the environment's ways to fail a call are tried one at a time
Faults(c, mem, ok, fd) ==
    (IF c # <<TRUE, "cb">> THEN 1 ELSE 0) + (IF mem = NULL THEN 1 ELSE 0)
    + (IF ok THEN 0 ELSE 1) + (IF fd = -1 THEN 1 ELSE 0)

IoCreate ==
    /\ CanCall
    /\ \E c \in CtxArgs, fd \in FdSet \cup {-1}, dir \in Dirs,
          mem \in FreeMem(State), ok \in BOOLEAN :
         /\ Faults(c, mem, ok, fd) <= 1
         /\ Faults(c, mem, ok, fd) = 1 => dir = "UEV_DIR_INBOUND"
         /\ Called(uev_io_create(State, c[1], c[2], fd, dir, mem, ok).s, run)

IoDelete ==
    /\ CanCall
    /\ \E ctx \in BOOLEAN, w \in {NULL} \cup Watchers("UEV_FILE_TYPE") :
         Called(uev_io_delete(State, ctx, w).s, run)

TimerCreate ==
    /\ CanCall
    /\ \E c \in CtxArgs, t \in TimerArgs, tfdnew \in {-1, LowestFree(State)},
          mem \in FreeMem(State), ok \in BOOLEAN :
         /\ Faults(c, mem, ok, tfdnew) <= 1
         /\ Faults(c, mem, ok, tfdnew) = 1 => t = <<0, 0>>
         /\ Called(uev_timer_create(State, c[1], c[2], t[1], t[2], tfdnew,
                                    mem, ok).s, run)

TimerSet ==
    /\ CanCall
    /\ \E ctx \in BOOLEAN, t \in TimerArgs,
          w \in {NULL} \cup Watchers("UEV_TIMER_TYPE") :
         /\ (~ctx \/ w = NULL) => t = <<0, 0>>
         /\ LET r == uev_timer_set(State, ctx, w, t[1], t[2])
            IN Called(r.s, [run EXCEPT !.rearm =
                              @ \/ (ctx /\ w = events[i] /\ r.ret = 0)])

TimerDelete ==
    /\ CanCall
    /\ \E ctx \in BOOLEAN, w \in {NULL} \cup Watchers("UEV_TIMER_TYPE") :
         Called(uev_timer_delete(State, ctx, w).s, run)

Exit ==
    /\ CanCall
    /\ Called(uev_exit(State),
              [run EXCEPT !.exitAt = IF @ = 0 THEN i ELSE @])

CtxDelete ==
    /\ pc = "idle"
    /\ Commit(Settle(uev_ctx_delete(State), "deleted"))
    /\ pc' = "deleted"
    /\ ret' = NoRet
    /\ run' = NoRun
    /\ UNCHANGED <<events, i, result, cbOps>>

\* the application opens a file of its own (pipe, socket, ...)
AppOpen ==
    /\ pc = "idle"
    /\ LowestFree(State) # -1
    /\ Called([State EXCEPT !.fds[LowestFree(State)] = "app"], run)

\* the application closes one of its own descriptors, watched or not
AppClose ==
    /\ pc = "idle"
    /\ \E fd \in FdSet :
         /\ fds[fd] = "app"
         /\ Called(sys_close(State, fd), run)

\* time passes: an armed timerfd expires
TimerExpire ==
    /\ pc \notin {"deleted", "crashed"}
    /\ \E fd \in FdSet :
         /\ Armed(State, fd)
         /\ tfd' = [tfd EXCEPT ![fd] =
                      [value |-> @.interval, interval |-> @.interval,
                       ticks |-> Min(@.ticks + 1, MaxTicks)]]
    /\ ub' = "none"
    /\ UNCHANGED <<heap, live, list, regs, fds, running, freed,
                   pc, events, i, result, cbOps, ret, run>>

\* uev_run(NULL)
RunNull ==
    /\ pc = "idle"
    /\ Commit(State)
    /\ ret' = <<-1>>
    /\ run' = [NoRun EXCEPT !.kind = "null"]
    /\ UNCHANGED <<pc, events, i, result, cbOps>>

\* uev_run(ctx) up to the first test of the while loop
Run ==
    /\ pc = "idle"
    /\ Commit(uev_run_start(State))
    /\ result' = 0
    /\ pc' = "loop"
    /\ run' = [NoRun EXCEPT !.kind = "ctx"]
    /\ ret' = NoRet
    /\ UNCHANGED <<events, i, cbOps>>

\* while (ctx->running) is false: return result
Return ==
    /\ pc = "loop"
    /\ ~uev_run_continue(State)
    /\ Commit(State)
    /\ pc' = "idle"
    /\ ret' = <<result>>
    /\ result' = 0
    /\ run' = NoRun
    /\ UNCHANGED <<events, i, cbOps>>

\* epoll_wait() < 0 with errno EINTR: continue
WaitEINTR ==
    /\ pc = "loop"
    /\ uev_run_continue(State)
    /\ LET r == uev_run_wait_failed(State, result, "EINTR")
       IN Commit(r.s) /\ result' = r.result
    /\ run' = [run EXCEPT !.wait = "eintr"]
    /\ UNCHANGED <<pc, events, i, cbOps, ret>>

\* epoll_wait() < 0 with another errno: nfds < 0, the for loop has no turn
WaitFail ==
    /\ pc = "loop"
    /\ uev_run_continue(State)
    /\ \E errno \in {"EBADF", "EINVAL"} :
         LET r == uev_run_wait_failed(State, result, errno)
         IN Commit(r.s) /\ result' = r.result
    /\ run' = [run EXCEPT !.wfail = TRUE, !.wait = "fail"]
    /\ UNCHANGED <<pc, events, i, cbOps, ret>>

\* level-triggered readiness: a timerfd is readable while its counter is
\* nonzero; a descriptor of the application is ready whenever it says so
Ready == {fd \in FdSet : /\ regs[fd] # NoReg
                         /\ fds[fd] = "timer" => tfd[fd].ticks > 0}

Batches ==
    {b \in UNION {[1..n -> Ready] :
                     n \in 1..Min(Cardinality(Ready), UEV_MAX_EVENTS)} :
        \A j, k \in DOMAIN b : j # k => b[j] # b[k]}

\* epoll_wait() returns nfds >= 1 events
WaitEvents ==
    /\ pc = "loop"
    /\ uev_run_continue(State)
    /\ \E b \in Batches :
         events' = [k \in DOMAIN b |-> regs[b[k]].ptr]
    /\ Commit(State)
    /\ i' = 1
    /\ pc' = "dispatch"
    /\ run' = [run EXCEPT !.invoked = 0, !.wait = "events"]
    /\ UNCHANGED <<result, cbOps, ret>>

\* the for loop moves on to the next event, or the batch is done
Advance(S, res, rfail) ==
    LET to == uev_run_next(S, i, Len(events))
    IN /\ Commit(Settle(S, to))
       /\ pc' = to
       /\ result' = res
       /\ run' = [run EXCEPT !.rfail = @ \/ rfail, !.rearm = FALSE]
       /\ i' = IF to = "loop" THEN 0 ELSE i + 1
       /\ events' = IF to = "loop" THEN <<>> ELSE events
       /\ cbOps' = 0

Crash(S) ==
    /\ Commit(S)
    /\ pc' = "crashed"
    /\ UNCHANGED <<events, i, result, cbOps, run>>

\* w = ctx->events[i].data.ptr; if (w->handler) w->handler(ctx, w, w->data)
\* A pointer to a freed watcher is dereferenced here when an earlier callback
\* of the batch deleted w: the process aborts or goes on with what it finds.
Dispatch ==
    /\ pc = "dispatch"
    /\ LET w  == events[i]
           S0 == IF w \in freed THEN Undefined(State, "dispatch_freed")
                 ELSE State
       IN \E abort \in {FALSE, (w \in freed)} :
            IF abort THEN Crash(S0)
            ELSE IF S0.heap[w].handler # NoHandler
            THEN /\ Commit(S0)
                 /\ pc' = "callback"
                 /\ run' = [run EXCEPT !.invoked = @ + 1, !.rearm = FALSE]
                 /\ UNCHANGED <<events, i, result, cbOps>>
            ELSE LET r == uev_run_after_handler(S0, w, result)
                 IN Advance(r.s, r.result, r.rfail)
    /\ ret' = NoRet

\* the callback returns; the timer housekeeping of its event follows.
\* When the callback deleted w, w->type, w->fd and w->period are read from
\* freed memory and a one-shot timer is deleted a second time.
CallbackReturn ==
    /\ pc = "callback"
    /\ LET w  == events[i]
           r0 == uev_run_after_handler(State, w, result)
           S0 == IF w \notin freed THEN State
                 ELSE Undefined(State, IF r0.deleted THEN "second_delete"
                                       ELSE "read_after_delete")
           r  == uev_run_after_handler(S0, w, result)
       IN \E abort \in {FALSE, (w \in freed)} :
            IF abort THEN Crash(S0)
            ELSE Advance(r.s, r.result, r.rfail)
    /\ ret' = NoRet

Next ==
    \/ IoCreate
    \/ IoDelete
    \/ TimerCreate
    \/ TimerSet
    \/ TimerDelete
    \/ Exit
    \/ CtxDelete
    \/ AppOpen
    \/ AppClose
    \/ TimerExpire
    \/ RunNull
    \/ Run
    \/ Return
    \/ WaitEINTR
    \/ WaitFail
    \/ WaitEvents
    \/ Dispatch
    \/ CallbackReturn

Spec == Init /\ [][Next]_vars

\* ----------------------------------------------------------------- claims
InRun == pc \in {"loop", "dispatch", "callback"}
BatchEnds == pc \in {"dispatch", "callback"} /\ pc' = "loop"
Returns == pc = "loop" /\ pc' = "idle"

\* C1: in every reachable state the descriptors registered with epoll are
\* exactly the descriptors of the watchers of ctx->watchers, each
\* registration tagged with its own watcher.
RegisteredIffMember ==
    /\ \A fd \in FdSet :
         regs[fd] # NoReg => /\ regs[fd].ptr \in Members(State)
                             /\ heap[regs[fd].ptr].fd = fd
    /\ \A w \in Members(State) :
         /\ heap[w].fd \in FdSet
         /\ regs[heap[w].fd].ptr = w

\* C2: a callback may delete its own watcher: uev_run then neither reads a
\* field of the freed watcher nor deletes (frees) it a second time.
SelfDeleteIsSafe ==
    ub \notin {"read_after_delete", "second_delete", "double_free"}

\* C3: a one-shot timer (period 0, timeout T >= 0) fires once in uev_run and
\* is then deleted.  For it to fire at all, whenever the loop is about to
\* wait every one-shot timer of the set is armed or has already expired.
OneShotFires ==
    (pc = "loop" /\ running) =>
        \A w \in Members(State) :
            (/\ heap[w].type = "UEV_TIMER_TYPE"
             /\ heap[w].period = 0
             /\ heap[w].timeout >= 0)
            => (Armed(State, heap[w].fd) \/ tfd[heap[w].fd].ticks > 0)

\* C4: a timer callback that rearms its own watcher with uev_timer_set has
\* the new schedule programmed, and the housekeeping after the callback
\* records no failure and leaves the running flag alone.
RearmKeepsLoopRunning ==
    [][(/\ pc = "callback"
        /\ run.rearm
        /\ events[i] \in live
        /\ heap[events[i]].timeout > 0
        /\ pc' \in {"dispatch", "loop"})
       => (/\ result' = result
           /\ running' = running
           /\ run'.rfail = run.rfail)]_vars

\* C5: after uev_ctx_delete the watcher set and the epoll registrations are
\* empty and every descriptor the library opened (the epoll handle, each
\* timerfd) is closed.
CtxDeleteReleasesAll ==
    pc = "deleted" =>
        /\ list = <<>>
        /\ \A fd \in FdSet : regs[fd] = NoReg
        /\ \A fd \in FdSet : fds[fd] \in {"closed", "app"}

\* C6: when a callback calls uev_exit and no failure is recorded, the
\* callbacks of all events of the batch are still invoked, the loop makes no
\* further epoll_wait call, and uev_run returns 0.
ExitFinishesBatch ==
    [][/\ (BatchEnds /\ run.exitAt > 0) => run'.invoked = Len(events)
       /\ (pc = "loop" /\ run.exitAt > 0)
            => (Returns \/ UNCHANGED <<pc, run, result, running, events>>)
       /\ (Returns /\ run.exitAt > 0 /\ ~run.wfail /\ ~run.rfail)
            => ret' = <<0>>]_vars

\* exit was called by the first callback of a batch of two, the second
\* callback has run, and uev_run is about to return 0
ExitFinishesBatchWitness ==
    /\ pc = "loop"
    /\ run.exitAt = 1
    /\ run.invoked = 2
    /\ ~running
    /\ result = 0

\* C7: uev_run(ctx) returns 0 exactly when the loop ended through uev_exit
\* and neither a wait failure nor a timer-read failure was recorded in that
\* run; a recorded failure keeps the result nonzero whatever follows;
\* uev_run(NULL) returns nonzero and leaves the running flag alone.
RunReturnValue ==
    [][/\ Returns => /\ ret' \in {<<0>>, <<-1>>}
                     /\ ret' = <<0>> <=> (/\ run.exitAt > 0
                                          /\ ~run.wfail
                                          /\ ~run.rfail)
       /\ (InRun /\ (run.wfail \/ run.rfail)) => result = -1
       /\ (run'.kind = "null" /\ run.kind # "null")
            => (pc' = "idle" /\ ret' = <<-1>> /\ running' = running)]_vars

\* a timer read failed, a later callback called uev_exit, and uev_run is
\* about to return nonzero
RunReturnValueWitness ==
    /\ pc = "loop"
    /\ run.rfail
    /\ run.exitAt > 0
    /\ ~running
    /\ result = -1

\* C8: an epoll_wait interrupted by a signal is retried: no failure is
\* recorded, no callback dispatched, the running flag unchanged.  Any other
\* wait failure records failure and clears the flag, dispatches nothing,
\* and uev_run returns nonzero without another wait.
WaitFailureHandling ==
    [][/\ (run'.wait = "eintr" /\ run.wait # "eintr")
            => /\ pc = "loop" /\ pc' = "loop"
               /\ result' = result
               /\ running' = running
               /\ run' = [run EXCEPT !.wait = "eintr"]
       /\ (run'.wait = "fail" /\ run.wait # "fail")
            => /\ pc = "loop" /\ pc' = "loop"
               /\ result' = -1
               /\ ~running'
               /\ run'.invoked = run.invoked
       /\ (pc = "loop" /\ run.wait = "fail")
            => \/ Returns /\ ret' = <<-1>>
               \/ UNCHANGED <<pc, run, result, running, events>>]_vars

\* a wait has failed with an errno other than EINTR and uev_run is about to
\* return
WaitFailureHandlingWitness ==
    /\ pc = "loop"
    /\ run.wait = "fail"
    /\ run.wfail
    /\ ~running
    /\ result = -1

\* C9 (as claimed): once a timer read has failed, no callback of a later
\* event is invoked.
ReadFailureStopsDispatch ==
    [][(InRun /\ run.rfail) => run'.invoked <= run.invoked]_vars

\* C9 (amended): a failed timer read records failure and clears the running
\* flag; the rest of the batch is still dispatched; then uev_run returns
\* nonzero without another wait.
ReadFailureEndsLoop ==
    [][/\ (~run.rfail /\ run'.rfail) => (result' = -1 /\ ~running')
       /\ (InRun /\ run.rfail) => (result = -1 /\ ~running)
       /\ (BatchEnds /\ run.rfail) => run'.invoked = Len(events)
       /\ (pc = "loop" /\ run.rfail)
            => \/ Returns /\ ret' = <<-1>>
               \/ UNCHANGED <<pc, run, result, running, events>>]_vars

\* a timer read has failed and the callback of a later event is running
ReadFailureEndsLoopWitness ==
    /\ pc = "callback"
    /\ run.rfail
    /\ run.invoked = 2

\* C10: uev_io_create fails when the context or the callback is absent, the
\* allocation fails or epoll rejects the descriptor, and then leaves the
\* watcher set and the registrations as they were; when it succeeds it adds
\* one registration, tagged with the new watcher, and that watcher to the
\* set.
IoCreateAllOrNothing ==
    \A c \in CtxArgs, fd \in FdSet \cup {-1}, dir \in Dirs,
       mem \in FreeMem(State), ok \in BOOLEAN :
        LET r  == uev_io_create(State, c[1], c[2], fd, dir, mem, ok)
            ev == [ptr |-> mem,
                   events |-> IF dir = "UEV_DIR_OUTBOUND" THEN "EPOLLOUT"
                                                          ELSE "EPOLLIN"]
            rejected == epoll_ctl_add(State, fd, ev, ok).ret < 0
        IN /\ (c # <<TRUE, "cb">> \/ mem = NULL \/ rejected) <=> r.ret = NULL
           /\ r.ret = NULL => /\ r.s.list = list
                              /\ r.s.regs = regs
                              /\ r.s.live = live
           /\ r.ret # NULL => /\ r.ret = mem
                              /\ regs[fd] = NoReg
                              /\ r.s.regs = [regs EXCEPT ![fd] = ev]
                              /\ r.s.list = <<mem>> \o list
                              /\ r.s.live = live \cup {mem}

\* an I/O watcher has been created; a second one on its descriptor would be
\* rejected by epoll
IoCreateAllOrNothingWitness ==
    \E w \in Members(State) :
        /\ heap[w].type = "UEV_FILE_TYPE"
        /\ regs[heap[w].fd].ptr = w
        /\ FreeMem(State) # {NULL}

\* the arguments uev_timer_create can be given in the current state
TimerCreateInputs ==
    {x \in CtxArgs \X TimerArgs \X {-1, LowestFree(State)}
           \X FreeMem(State) \X BOOLEAN :
        Faults(x[1], x[4], x[5], x[3]) <= 1}

\* C11: on every failure path of uev_timer_create (no timerfd, registration
\* fails, arming fails while the loop runs) the timerfd the call opened is
\* closed once, and the watcher set, the registrations, the allocations and
\* the descriptor table are what they were before the call.
TimerCreateUnwinds ==
    \A x \in TimerCreateInputs :
        LET c == x[1]
            t == x[2]
            r == uev_timer_create(State, c[1], c[2], t[1], t[2], x[3], x[4],
                                  x[5])
            rejected == running /\ (~timespec_valid(msec2tspec(t[1]))
                                    \/ ~timespec_valid(msec2tspec(t[2])))
        IN /\ (x[3] < 0 \/ c # <<TRUE, "cb">> \/ x[4] = NULL \/ ~x[5]
                 \/ rejected) => r.ret = NULL
           /\ r.ret = NULL =>
                /\ r.closed = (IF x[3] < 0 THEN 0 ELSE 1)
                /\ r.s.list = list
                /\ r.s.regs = regs
                /\ r.s.live = live
                /\ r.s.fds = fds
                /\ r.s.tfd = tfd

\* the loop is running, a callback is in progress and a timer created now
\* with a negative timeout is registered, fails to arm and is unwound
TimerCreateUnwindsWitness ==
    /\ pc = "callback"
    /\ running
    /\ list # <<>>
    /\ \E mem \in Addr \ live :
         /\ LowestFree(State) # -1
         /\ uev_timer_create(State, TRUE, "cb", -1, 0, LowestFree(State),
                             mem, TRUE).ret = NULL

\* C12: uev_timer_delete, called inside or outside the loop, leaves the
\* timer's descriptor closed and its OS timer disarmed, besides taking the
\* watcher out of the set and its registration out of epoll.
TimerDeleteReleasesTimer ==
    [][\A w \in Members(State) :
         (/\ heap[w].type = "UEV_TIMER_TYPE"
          /\ pc \in {"idle", "callback"}
          /\ pc' = pc
          /\ \A k \in 1..Len(list') : list'[k] # w)
         => (/\ regs'[heap[w].fd] = NoReg
             /\ fds'[heap[w].fd] = "closed"
             /\ tfd'[heap[w].fd].value = ZeroSpec)]_vars

\* C13: a recurring timer registered with timeout 0 and period P > 0 before
\* uev_run fires after the loop starts: the arming pass of uev_run does not
\* leave its OS timer disarmed.
ZeroDelayRecurringArmed ==
    [][(pc = "idle" /\ pc' = "loop") =>
         \A k \in 1..Len(list') :
            (/\ heap'[list'[k]].type = "UEV_TIMER_TYPE"
             /\ heap'[list'[k]].timeout = 0
             /\ heap'[list'[k]].period > 0)
            => tfd'[heap'[list'[k]].fd].value # ZeroSpec]_vars

\* C14: while the running flag is false, uev_timer_set on a timer of the
\* context returns 0 and changes only the stored timeout and period; a
\* uev_timer_create that succeeds leaves the new timerfd unprogrammed.
TimerSetDeferred ==
    ~running =>
        /\ \A w \in Watchers("UEV_TIMER_TYPE"), t \in TimerArgs :
             LET r == uev_timer_set(State, TRUE, w, t[1], t[2])
             IN /\ r.ret = 0
                /\ r.s = [State EXCEPT !.heap[w].timeout = t[1],
                                       !.heap[w].period = t[2]]
        /\ \A x \in TimerCreateInputs :
             LET r == uev_timer_create(State, x[1][1], x[1][2], x[2][1],
                                       x[2][2], x[3], x[4], x[5])
             IN r.ret # NULL =>
                  /\ r.s.tfd = tfd
                  /\ r.s.heap[r.ret].timeout = x[2][1]
                  /\ r.s.heap[r.ret].period = x[2][2]
                  /\ r.s.list = <<r.ret>> \o list

\* outside the loop a timer holds a schedule that its timerfd, still armed
\* from the last run, was not given
TimerSetDeferredWitness ==
    /\ pc = "idle"
    /\ ~running
    /\ \E w \in Members(State) :
         /\ heap[w].type = "UEV_TIMER_TYPE"
         /\ heap[w].period = 0
         /\ Armed(State, heap[w].fd)
         /\ tfd[heap[w].fd].interval # ZeroSpec

\* C15: when uev_run reaches its first wait the running flag is set and
\* every timer watcher of the set has its OS timer programmed with its
\* stored timeout and period, counted from now; the set and the
\* registrations are untouched.
ArmPassProgramsTimers ==
    [][(pc = "idle" /\ pc' = "loop") =>
         /\ running'
         /\ list' = list
         /\ regs' = regs
         /\ \A k \in 1..Len(list') :
              heap'[list'[k]].type = "UEV_TIMER_TYPE" =>
                tfd'[heap'[list'[k]].fd] =
                    [value    |-> msec2tspec(heap'[list'[k]].timeout),
                     interval |-> msec2tspec(heap'[list'[k]].period),
                     ticks    |-> 0]]_vars

\* a step of uev_run itself, as opposed to a call made by the application
LoopStep == (pc' # pc /\ pc' # "deleted") \/ pc \in {"loop", "dispatch"}

\* C16: no step of uev_run deletes a recurring timer (stored period > 0):
\* after the step it is still in the watcher set and still registered.
LoopKeepsRecurring ==
    [][LoopStep =>
         \A w \in Members(State) :
            (heap[w].type = "UEV_TIMER_TYPE" /\ heap[w].period > 0)
            => (/\ \E k \in 1..Len(list') : list'[k] = w
                /\ heap'[w] = heap[w]
                /\ regs'[heap[w].fd] = regs[heap[w].fd])]_vars

\* the only watcher, a recurring timer, has fired, its callback has run and
\* its counter has been read; it is still in the set, registered and armed
LoopKeepsRecurringWitness ==
    /\ pc = "loop"
    /\ running
    /\ run.wait = "events"
    /\ ~run.rfail
    /\ \E w \in live :
         /\ list = <<w>>
         /\ live = {w}
         /\ heap[w].type = "UEV_TIMER_TYPE"
         /\ heap[w].period > 0
         /\ regs[heap[w].fd].ptr = w
         /\ Armed(State, heap[w].fd)

\* a schedule timerfd_settime refuses
Rejected(t) ==
    ~timespec_valid(msec2tspec(t[1])) \/ ~timespec_valid(msec2tspec(t[2]))

\* C17: uev_timer_set, and uev_timer_create through it, fail whenever the
\* schedule asked for is one the OS rejects, and uev_run does not go on to
\* wait with a timer in the set whose programming failed.
RejectedScheduleReported ==
    /\ \A w \in Watchers("UEV_TIMER_TYPE"), t \in TimerArgs :
         Rejected(t) => uev_timer_set(State, TRUE, w, t[1], t[2]).ret # 0
    /\ \A x \in TimerCreateInputs :
         Rejected(x[2]) =>
           uev_timer_create(State, x[1][1], x[1][2], x[2][1], x[2][2],
                            x[3], x[4], x[5]).ret = NULL
    /\ (pc = "loop" /\ running /\ run.wait = "none") =>
         \A w \in Members(State) :
            heap[w].type = "UEV_TIMER_TYPE" =>
              ~Rejected(<<heap[w].timeout, heap[w].period>>)

\* C18: the one-shot check after a timer callback goes by the period stored
\* when the callback has returned: with period > 0 the loop keeps the
\* watcher, with period 0 it deletes the watcher right after the callback.
OneShotCheckReadsCurrent ==
    [][(/\ pc = "callback"
        /\ pc' \in {"dispatch", "loop"}
        /\ events[i] \in live
        /\ heap[events[i]].type = "UEV_TIMER_TYPE")
       => IF heap[events[i]].period > 0
          THEN /\ events[i] \in live'
               /\ heap'[events[i]].period = heap[events[i]].period
               /\ (\E k \in 1..Len(list') : list'[k] = events[i])
                    <=> events[i] \in Members(State)
          ELSE /\ events[i] \notin live'
               /\ \A k \in 1..Len(list') : list'[k] # events[i]]_vars

\* a timer that fired as a recurring one (its timerfd still holds the
\* interval) has been rearmed by its own callback with period 0
OneShotCheckReadsCurrentWitness ==
    /\ pc = "callback"
    /\ run.rearm
    /\ events[i] \in Members(State)
    /\ events[i] \notin freed
    /\ heap[events[i]].type = "UEV_TIMER_TYPE"
    /\ heap[events[i]].period = 0
    /\ tfd[heap[events[i]].fd].interval # ZeroSpec

\* C19: the event uev_run is about to dispatch resolves to a watcher that is
\* in the watcher set and has not been freed since the batch was fetched;
\* the loop never calls the handler of a deleted watcher.
DispatchedAreMembers ==
    /\ pc = "dispatch" => /\ events[i] \in Members(State)
                          /\ events[i] \notin freed
    /\ ub # "dispatch_freed"

\* C20: whenever uev_run is not in progress (before the first call, after
\* any return) the running flag is false, so a uev_timer_set,
\* uev_timer_create or uev_timer_delete issued then leaves the program of
\* every timerfd alone.
RunningOnlyInsideRun ==
    /\ pc \in {"idle", "deleted"} => ~running
    /\ pc = "idle" =>
         /\ \A w \in Watchers("UEV_TIMER_TYPE") :
              /\ uev_timer_delete(State, TRUE, w).s.tfd = tfd
              /\ \A t \in TimerArgs :
                   uev_timer_set(State, TRUE, w, t[1], t[2]).s.tfd = tfd
         /\ \A x \in TimerCreateInputs :
              uev_timer_create(State, x[1][1], x[1][2], x[2][1], x[2][2],
                               x[3], x[4], x[5]).s.tfd = tfd

\* uev_run has returned with failure; a timer of the set is still armed
RunningOnlyInsideRunWitness ==
    /\ pc = "idle"
    /\ ret = <<-1>>
    /\ run.kind = "none"
    /\ ~running
    /\ \E w \in Members(State) :
         /\ heap[w].type = "UEV_TIMER_TYPE"
         /\ Armed(State, heap[w].fd)

====
